---- MODULE Spec2Model ----
(***************************************************************************)
(* Model of src/py/misc.py: the density estimators get_kde and             *)
(* uniform_density, and the log-probability lookup lnprob_from_density.    *)
(*                                                                         *)
(* Numbers.  A float is modelled as an exact rational n/d (d > 0, reduced) *)
(* extended with the three IEEE specials, encoded with d = 0:              *)
(*   1/0 = +inf,  -1/0 = -inf,  0/0 = nan.                                 *)
(* Arithmetic follows IEEE on the specials (x/0 = +-inf, 0/0 = nan,        *)
(* 0*inf = nan, inf-inf = nan, every comparison with nan is false);        *)
(* rounding, overflow and underflow of finite values are not modelled.     *)
(***************************************************************************)
EXTENDS Integers, Sequences, FiniteSets, TLC

RECURSIVE GCD(_, _)
GCD(m, n) == IF n = 0 THEN m ELSE GCD(n, m % n)

Abs(n) == IF n < 0 THEN -n ELSE n

Sign(n) == IF n > 0 THEN 1 ELSE IF n < 0 THEN -1 ELSE 0

Q(n, d) ==
    IF d = 0 THEN [n |-> Sign(n), d |-> 0]
    ELSE LET g == GCD(Abs(n), Abs(d))
         IN  [n |-> (Sign(d) * n) \div g, d |-> Abs(d) \div g]

Num(i) == [n |-> i, d |-> 1]

NaN == [n |-> 0, d |-> 0]

PosInf == [n |-> 1, d |-> 0]

NegInf == [n |-> -1, d |-> 0]

IsNaN(a) == a.d = 0 /\ a.n = 0

\* np.isfinite
IsFinite(a) == a.d # 0

Neg(a) == [n |-> -a.n, d |-> a.d]

Add(a, b) ==
    IF IsNaN(a) \/ IsNaN(b) THEN NaN
    ELSE IF a.d = 0 /\ b.d = 0 THEN (IF a.n = b.n THEN a ELSE NaN)
    ELSE IF a.d = 0 THEN a
    ELSE IF b.d = 0 THEN b
    ELSE Q(a.n * b.d + b.n * a.d, a.d * b.d)

Sub(a, b) == Add(a, Neg(b))

Mul(a, b) == Q(a.n * b.n, a.d * b.d)

Recip(b) == Q(b.d, b.n)

Div(a, b) == Mul(a, Recip(b))

\* a == b, a < b, a <= b on floats: false as soon as one side is nan
Eq(a, b) == ~IsNaN(a) /\ ~IsNaN(b) /\ a = b

Lt(a, b) ==
    /\ ~IsNaN(a)
    /\ ~IsNaN(b)
    /\ IF a.d # 0 /\ b.d # 0 THEN a.n * b.d < b.n * a.d
       ELSE IF a.d = 0 /\ b.d = 0 THEN a.n < b.n
       ELSE IF a.d = 0 THEN a.n < 0
       ELSE b.n > 0

Le(a, b) == Lt(a, b) \/ Eq(a, b)

Zero == Num(0)

One == Num(1)

(***************************************************************************)
(* numpy helpers                                                           *)
(***************************************************************************)

\* np.min / np.max of a non-empty array of finite values
RECURSIVE SeqMin(_)
SeqMin(s) ==
    IF Len(s) = 1 THEN s[1]
    ELSE LET m == SeqMin(Tail(s)) IN IF Lt(s[1], m) THEN s[1] ELSE m

RECURSIVE SeqMax(_)
SeqMax(s) ==
    IF Len(s) = 1 THEN s[1]
    ELSE LET m == SeqMax(Tail(s)) IN IF Lt(m, s[1]) THEN s[1] ELSE m

\* np.linspace(start, stop, num) for num >= 1: num = 1 gives [start]; otherwise
\* start + i * (stop - start) / (num - 1), the last element set to stop.
Linspace(start, stop, num) ==
    IF num = 1 THEN << start >>
    ELSE LET step == Div(Sub(stop, start), Num(num - 1))
         IN  [i \in 1..num |->
                 IF i = num THEN stop
                 ELSE Add(Mul(Num(i - 1), step), start)]

\* np.trapz(y, x=x): sum of (x[i+1] - x[i]) * (y[i+1] + y[i]) / 2; 0 on one point
RECURSIVE TrapzFrom(_, _, _)
TrapzFrom(y, x, i) ==
    IF i >= Len(x) THEN Zero
    ELSE Add(Div(Mul(Sub(x[i + 1], x[i]), Add(y[i + 1], y[i])), Num(2)),
             TrapzFrom(y, x, i + 1))

Trapz(y, x) == TrapzFrom(y, x, 1)

\* xy[1] /= np.trapz(xy[1], x=xy[0])
Normalize(y, x) == LET t == Trapz(y, x) IN [i \in 1..Len(y) |-> Div(y[i], t)]

(***************************************************************************)
(* Inputs                                                                  *)
(***************************************************************************)

MaxSamples == 3

MaxNb == 3

\* elements of the caller's samples array: negative, zero, positive, non-finite
SampleVals == {NaN, Num(-1), Num(0), Num(1), Num(2)}

SampleArrays == UNION {[1..k -> SampleVals] : k \in 0..MaxSamples}

\* get_kde's a (default +inf) and b (default -inf)
LowerBounds == {PosInf, Num(-2), Num(1)}

UpperBounds == {NegInf, Num(0), Num(3)}

\* What stats.gaussian_kde(samples)(x) evaluates to on the grid: a sum of Gaussian
\* kernels, positive at every point; the values themselves are left open.
KdeVals == {Num(1), Num(2)}

\* uniform_density's a and b
UniformEnds == {Num(i) : i \in -1..2}

UniformBins == 100

(***************************************************************************)
(* State                                                                   *)
(***************************************************************************)

VARIABLES
    call,      \* the call the caller makes: the function and its arguments
    samples,   \* the caller's samples array
    est,       \* the estimator call once made: locals, outcome, returned xy
    closure,   \* the lookup returned by lnprob_from_density
    look       \* the last lnprob call on that lookup: value and result

vars == << call, samples, est, closure, look >>

NoEst ==
    [op |-> "none", outcome |-> "none", a |-> NaN, b |-> NaN,
     nb |-> 0, degenerate |-> FALSE, smin |-> NaN, smax |-> NaN,
     fitted |-> << >>, x |-> << >>, y |-> << >>]

(***************************************************************************)
(* get_kde                                                                 *)
(***************************************************************************)

\* line 7 as it would be if the selection were skipped, and the caller's array
\* used as it is, when every sample is finite
MaskedSelectView(arr) ==
    [data |-> SelectSeq(arr, IsFinite),
     shared |-> \A i \in 1..Len(arr) : IsFinite(arr[i])]

\* samples[np.isfinite(samples)]: boolean-mask indexing builds a new array that
\* shares no memory with the caller's.
MaskedSelect(arr) == [data |-> SelectSeq(arr, IsFinite), shared |-> FALSE]

\* lines 10-11
DegenerateWiden(c) == [smin |-> Mul(c, Q(99, 100)), smax |-> Mul(c, Q(101, 100))]

\* lines 13-16 with the two comparisons reversed
ApplyBoundsNarrowing(smin, smax, a, b) ==
    [smin |-> IF Lt(smin, a) THEN a ELSE smin,
     smax |-> IF Lt(b, smax) THEN b ELSE smax]

\* lines 13-16
ApplyBounds(smin, smax, a, b) ==
    [smin |-> IF Lt(a, smin) THEN a ELSE smin,
     smax |-> IF Lt(smax, b) THEN b ELSE smax]

\* stats.gaussian_kde(samples) raises unless it is given at least two points that
\* are not all equal (the sample covariance must be invertible).
KdeFits(pts) == Len(pts) >= 2 /\ \E i, j \in 1..Len(pts) : pts[i] # pts[j]

\* The whole of get_kde(arr, a, b, nb), with kde the values gaussian_kde gives on
\* the grid.  The result records the locals the claims speak about, the array the
\* caller holds afterwards, and the returned xy (outcome "ok") or that the call
\* raised.
GetKdeRun(arr, a, b, nb, kde) ==
    LET sel  == MaskedSelect(arr)
        fin  == sel.data
        base == [NoEst EXCEPT !.op = "get_kde", !.a = a, !.b = b,
                              !.nb = nb]
    IN  IF Len(fin) = 0
        THEN \* line 8: np.min of an empty array raises
             [caller |-> arr, call |-> [base EXCEPT !.outcome = "raise"]]
        ELSE
        LET lo  == SeqMin(fin)
            hi  == SeqMax(fin)
            deg == Eq(lo, hi)
            w   == IF deg THEN DegenerateWiden(lo) ELSE [smin |-> lo, smax |-> hi]
            loc == [base EXCEPT !.degenerate = deg, !.smin = w.smin,
                                !.smax = w.smax]
        IN  IF deg /\ Len(fin) < 2
            THEN \* line 12: two values do not fit a one-element slice
                 [caller |-> arr, call |-> [loc EXCEPT !.outcome = "raise"]]
            ELSE
            LET pts   == IF deg
                         THEN [fin EXCEPT ![1] = w.smin, ![2] = w.smax]
                         ELSE fin
                after == IF sel.shared THEN pts ELSE arr
                r     == ApplyBounds(w.smin, w.smax, a, b)
                x     == Linspace(r.smin, r.smax, nb)
            IN  IF ~KdeFits(pts)
                THEN [caller |-> after,
                      call |-> [loc EXCEPT !.outcome = "raise", !.fitted = pts]]
                ELSE [caller |-> after,
                      call |-> [loc EXCEPT !.outcome = "ok", !.fitted = pts,
                                           !.x = x, !.y = Normalize(kde, x)]]

GetKde ==
    /\ call.op = "get_kde"
    /\ est.op = "none"
    /\ \E kde \in [1..call.nb -> KdeVals] :
        LET r == GetKdeRun(samples, call.a, call.b, call.nb, kde)
        IN  /\ samples' = r.caller
            /\ est' = r.call
    /\ UNCHANGED << call, closure, look >>

(***************************************************************************)
(* uniform_density                                                         *)
(***************************************************************************)

UniformDensityRun(a, b) ==
    LET x   == Linspace(a, b, UniformBins)
        raw == [i \in 1..UniformBins |-> One]
    IN  [NoEst EXCEPT !.op = "uniform_density", !.outcome = "ok", !.a = a,
                      !.b = b, !.nb = UniformBins, !.x = x,
                      !.y = Normalize(raw, x)]

UniformDensity ==
    /\ call.op = "uniform_density"
    /\ est.op = "none"
    /\ est' = UniformDensityRun(call.a, call.b)
    /\ UNCHANGED << call, samples, closure, look >>

(***************************************************************************)
(* lnprob_from_density                                                     *)
(***************************************************************************)

MaxCurveLen == 3

MaxX == 3

LookMargin == 2

\* Curves handed to lnprob_from_density: every curve over a small grid that meets
\* the curve invariant (x strictly increasing, y >= 0, trapezoidal integral 1).
CurveXs ==
    {x \in UNION {[1..k -> 0..MaxX] : k \in 2..MaxCurveLen} :
        \A i \in 1..(Len(x) - 1) : x[i] < x[i + 1]}

CurveRawYs(k) == [1..k -> 0..2]

ToNums(s) == [i \in 1..Len(s) |-> Num(s[i])]

Curves ==
    {[x |-> ToNums(x), y |-> Normalize(ToNums(raw), ToNums(x))] :
        << x, raw >> \in
            {p \in UNION {{x} \X CurveRawYs(Len(x)) : x \in CurveXs} :
                Lt(Zero, Trapz(ToNums(p[2]), ToNums(p[1])))}}

\* vmin / vmax: None or a number
None == [set |-> FALSE, v |-> Zero]

Some(v) == [set |-> TRUE, v |-> v]

HardBounds == {None, Some(Num(1)), Some(Num(2))}

\* query values: halves from LookMargin below the grid to LookMargin above it
LookValues == {Q(i, 2) : i \in (-2 * LookMargin)..(2 * (MaxX + LookMargin))}

NoClosure == [made |-> FALSE, x |-> << >>, y |-> << >>, vmin |-> None, vmax |-> None]

NoLook == [called |-> FALSE, value |-> Zero, res |-> [kind |-> "none", m |-> Zero, e |-> Zero]]

\* np.interp(value, xp, fp) for xp[1] <= value <= xp[n]: fp at the last node that is
\* <= value when value sits on it (or it is the last node), else the straight line
\* to the next node.
Interp(value, xp, fp) ==
    LET n == Len(xp)
        j == CHOOSE i \in 1..n :
                 /\ Le(xp[i], value)
                 /\ \A k \in (i + 1)..n : ~Le(xp[k], value)
    IN  IF j = n \/ Eq(xp[j], value) THEN fp[j]
        ELSE Add(Mul(Div(Sub(fp[j + 1], fp[j]), Sub(xp[j + 1], xp[j])),
                     Sub(value, xp[j])),
                 fp[j])

\* The result of lnprob.  kind "bound": the -np.inf of line 35.  kind "log":
\* np.log(v) of line 48, with v = m * exp(e) kept as the pair (m, e); its value is
\* log(m) + e, which is -inf when m = 0.  In the support v = m and e = 0.
BoundResult == [kind |-> "bound", m |-> Zero, e |-> Zero]

LogOf(m, e) == [kind |-> "log", m |-> m, e |-> e]

\* lines 34-48, with the hard-bound test moved into the tail branch
LnprobRunBoundsInTail(c, value) ==
    LET n == Len(c.x)
        out == \/ c.vmin.set /\ Lt(value, c.vmin.v)
               \/ c.vmax.set /\ Lt(c.vmax.v, value)
    IN  IF Le(c.x[1], value) /\ Le(value, c.x[n])
        THEN LogOf(Interp(value, c.x, c.y), Zero)
        ELSE IF out THEN BoundResult
        ELSE LET below == Lt(value, c.x[1])
                 vtail == IF below THEN c.y[1] ELSE c.y[n]
                 e0    == IF below THEN Sub(value, c.x[1]) ELSE Sub(c.x[n], value)
             IN  LogOf(vtail, Div(e0, Sub(c.x[n], c.x[1])))

\* lines 34-48, with exclusive comparisons in the support test of line 36
LnprobRunExclusive(c, value) ==
    LET n == Len(c.x)
    IN  IF \/ c.vmin.set /\ Lt(value, c.vmin.v)
           \/ c.vmax.set /\ Lt(c.vmax.v, value)
        THEN BoundResult
        ELSE IF Lt(c.x[1], value) /\ Lt(value, c.x[n])
        THEN LogOf(Interp(value, c.x, c.y), Zero)
        ELSE LET below == Lt(value, c.x[1])
                 vtail == IF below THEN c.y[1] ELSE c.y[n]
                 e0    == IF below THEN Sub(value, c.x[1]) ELSE Sub(c.x[n], value)
             IN  LogOf(vtail, Div(e0, Sub(c.x[n], c.x[1])))

\* lines 34-48
LnprobRun(c, value) ==
    LET n == Len(c.x)
    IN  IF \/ c.vmin.set /\ Lt(value, c.vmin.v)
           \/ c.vmax.set /\ Lt(c.vmax.v, value)
        THEN BoundResult
        ELSE IF Le(c.x[1], value) /\ Le(value, c.x[n])
        THEN LogOf(Interp(value, c.x, c.y), Zero)
        ELSE LET below == Lt(value, c.x[1])
                 vtail == IF below THEN c.y[1] ELSE c.y[n]
                 e0    == IF below THEN Sub(value, c.x[1]) ELSE Sub(c.x[n], value)
             IN  LogOf(vtail, Div(e0, Sub(c.x[n], c.x[1])))

LnprobFromDensity ==
    /\ call.op = "lnprob_from_density"
    /\ ~closure.made
    /\ closure' = [made |-> TRUE, x |-> call.xy.x, y |-> call.xy.y,
                   vmin |-> call.vmin, vmax |-> call.vmax]
    /\ UNCHANGED << call, samples, est, look >>

Lnprob ==
    /\ closure.made
    /\ \E value \in LookValues :
           look' = [called |-> TRUE, value |-> value,
                    res |-> LnprobRun(closure, value)]
    /\ UNCHANGED << call, samples, est, closure >>

(***************************************************************************)
(* Specifications                                                          *)
(***************************************************************************)

NoCall ==
    [op |-> "none", arr |-> << >>, a |-> Zero, b |-> Zero, nb |-> 0,
     xy |-> [x |-> << >>, y |-> << >>], vmin |-> None, vmax |-> None]

GetKdeCalls ==
    {[NoCall EXCEPT !.op = "get_kde", !.arr = arr, !.a = a, !.b = b, !.nb = nb] :
        arr \in SampleArrays, a \in LowerBounds, b \in UpperBounds, nb \in 1..MaxNb}

UniformDensityCalls ==
    {[NoCall EXCEPT !.op = "uniform_density", !.a = a, !.b = b] :
        a \in UniformEnds, b \in UniformEnds}

LnprobFromDensityCalls ==
    {[NoCall EXCEPT !.op = "lnprob_from_density", !.xy = xy, !.vmin = vmin,
                    !.vmax = vmax] :
        xy \in Curves, vmin \in HardBounds, vmax \in HardBounds}

\* The caller picks a function and its arguments; nothing has run yet.
Init ==
    /\ call \in GetKdeCalls \cup UniformDensityCalls \cup LnprobFromDensityCalls
    /\ samples = call.arr
    /\ est = NoEst
    /\ closure = NoClosure
    /\ look = NoLook

Next == GetKde \/ UniformDensity \/ LnprobFromDensity \/ Lnprob

Spec == Init /\ [][Next]_vars

(***************************************************************************)
(* Properties                                                              *)
(***************************************************************************)

StrictlyIncreasing(x) == \A i \in 1..(Len(x) - 1) : Lt(x[i], x[i + 1])

EvenlySpaced(x) ==
    \A i \in 1..(Len(x) - 2) : Sub(x[i + 1], x[i]) = Sub(x[i + 2], x[i + 1])

MinOf(a, b) == IF Lt(a, b) THEN a ELSE b

MaxOf(a, b) == IF Lt(a, b) THEN b ELSE a

FiniteOf(arr) == SelectSeq(arr, IsFinite)

NoHardBounds == ~closure.vmin.set /\ ~closure.vmax.set

OutsideHardBounds ==
    \/ closure.vmin.set /\ Lt(look.value, closure.vmin.v)
    \/ closure.vmax.set /\ Lt(closure.vmax.v, look.value)

First(x) == x[1]

Last(x) == x[Len(x)]

InSupport(v) == Le(First(closure.x), v) /\ Le(v, Last(closure.x))

\* The value of a result as an extended real is log(m) + e: -inf for a "bound"
\* result and for m = 0.
IsNegInfinity(r) == r.kind = "bound" \/ r.m = Zero

IsFiniteLog(r) == r.kind = "log" /\ IsFinite(r.m) /\ Lt(Zero, r.m) /\ IsFinite(r.e)

\* r1 < r2 as extended reals, for results over the same density m (or the same e)
LnLess(r1, r2) ==
    IF IsNegInfinity(r2) THEN FALSE
    ELSE IF IsNegInfinity(r1) THEN IsFiniteLog(r2)
    ELSE /\ IsFiniteLog(r1)
         /\ IsFiniteLog(r2)
         /\ \/ r1.m = r2.m /\ Lt(r1.e, r2.e)
            \/ r1.e = r2.e /\ Lt(r1.m, r2.m)

\* C1: whenever vmin is set and value < vmin, or vmax is set and value > vmax,
\* lnprob returns negative infinity from the hard-bound test, before and instead of
\* interpolation and tail extrapolation.
C1_HardBoundOverrides ==
    (look.called /\ OutsideHardBounds) => look.res = BoundResult

\* C1 witness: a value below vmin where the curve has positive density, answered
\* with negative infinity.
C1_Witness ==
    /\ look.called
    /\ closure.vmin.set
    /\ Lt(look.value, closure.vmin.v)
    /\ InSupport(look.value)
    /\ Lt(Zero, Interp(look.value, closure.x, closure.y))
    /\ look.res = BoundResult

\* C2: every curve returned for an accepted input (get_kde returning; uniform_density
\* called with a < b) has x strictly increasing and every y[i] >= 0.
C2_CurveShape ==
    (est.outcome = "ok" /\ (est.op = "uniform_density" => Lt(est.a, est.b)))
        => /\ StrictlyIncreasing(est.x)
           /\ \A i \in 1..Len(est.y) : Le(Zero, est.y[i])

\* C3: every curve returned by get_kde or uniform_density has trapezoidal
\* integral 1.
C3_IntegratesToOne ==
    est.outcome = "ok" => Eq(Trapz(est.y, est.x), One)

\* C4: with no hard bounds, outside the support lnprob is log(vtail) + e with e the
\* negative distance to the nearest boundary over the support width; it is strictly
\* below the value at that boundary and strictly decreases with the distance.
C4_TailStrictlyDecreasing ==
    (look.called /\ NoHardBounds /\ ~InSupport(look.value)) =>
        LET below == Lt(look.value, First(closure.x))
            edge  == IF below THEN First(closure.x) ELSE Last(closure.x)
            vtail == IF below THEN First(closure.y) ELSE Last(closure.y)
            width == Sub(Last(closure.x), First(closure.x))
            dist  == IF below THEN Sub(edge, look.value) ELSE Sub(look.value, edge)
        IN  /\ look.res = LogOf(vtail, Neg(Div(dist, width)))
            /\ LnLess(look.res, LnprobRun(closure, edge))
            /\ \A w \in LookValues :
                   (IF below THEN Lt(w, look.value) ELSE Lt(look.value, w))
                       => LnLess(LnprobRun(closure, w), look.res)

\* C5: with no hard bounds, lnprob(x[0]) is log(y[0]) and lnprob(x[-1]) is
\* log(y[-1]), from the interpolation branch, equal to the tail formula at distance 0.
C5_EndpointValues ==
    (look.called /\ NoHardBounds) =>
        LET width == Sub(Last(closure.x), First(closure.x))
            tail0(vtail, edge) == LogOf(vtail, Div(Sub(edge, edge), width))
        IN  /\ look.value = First(closure.x) =>
                /\ look.res = LogOf(First(closure.y), Zero)
                /\ look.res = tail0(First(closure.y), First(closure.x))
            /\ look.value = Last(closure.x) =>
                /\ look.res = LogOf(Last(closure.y), Zero)
                /\ look.res = tail0(Last(closure.y), Last(closure.x))

\* C5 witness: the lookup was evaluated at the first node of a curve whose two end
\* densities differ.
C5_Witness ==
    /\ look.called
    /\ NoHardBounds
    /\ look.value = First(closure.x)
    /\ First(closure.y) # Last(closure.y)
    /\ look.res = LogOf(First(closure.y), Zero)

\* C6: on a curve meeting the curve invariant, lnprob never takes the logarithm of
\* a non-positive density (vtail > 0 outside the support), and its result is a
\* finite log-probability or negative infinity.
C6_LogOfPositiveDensity ==
    look.called =>
        /\ look.res.kind = "log" => Lt(Zero, look.res.m)
        /\ IsFiniteLog(look.res) \/ IsNegInfinity(look.res)

\* C7: uniform_density(a, b) fails, returning no curve, whenever a >= b.
C7_UniformRejectsEmptyRange ==
    (est.op = "uniform_density" /\ Le(est.b, est.a)) => est.outcome = "raise"

\* C8: after get_kde the caller's samples array holds exactly the values it held
\* before the call.
C8_SamplesUntouched ==
    est.op = "get_kde" => samples = call.arr

\* C8 witness: a returned degenerate call on an all-finite array: the two widened
\* bounds were written, into the filtered copy.
C8_Witness ==
    /\ est.op = "get_kde"
    /\ est.outcome = "ok"
    /\ est.degenerate
    /\ FiniteOf(call.arr) = call.arr
    /\ est.fitted # call.arr
    /\ samples = call.arr

\* C9: when all finite samples equal one value c other than 0, the widening leaves
\* smin < smax, and the estimator is fitted to two distinct points.
C9_WideningValid ==
    (est.op = "get_kde" /\ est.degenerate /\ SeqMin(FiniteOf(call.arr)) # Zero) =>
        /\ Lt(est.smin, est.smax)
        /\ est.outcome = "ok" => est.fitted[1] # est.fitted[2]

\* The support get_kde is to return: nb evenly spaced points from min(a, smin) to
\* max(b, smax), smin and smax the min and max of the finite samples after the
\* degenerate widening.
SupportSpansBounds ==
    LET f   == FiniteOf(call.arr)
        lo  == SeqMin(f)
        hi  == SeqMax(f)
        deg == lo = hi
        smin == IF deg THEN Mul(lo, Q(99, 100)) ELSE lo
        smax == IF deg THEN Mul(hi, Q(101, 100)) ELSE hi
    IN  /\ Len(est.x) = call.nb
        /\ First(est.x) = MinOf(call.a, smin)
        /\ Last(est.x) = MaxOf(call.b, smax)
        /\ EvenlySpaced(est.x)

====
